---------------------------- MODULE Spec2Model ----------------------------
(***************************************************************************)
(* A model of the recovery agent: the rule-based diagnostic engine         *)
(* (self_repair/repair_generator.py), the copy-based restoration engine    *)
(* (restoration/engine.py), the backup analysis                            *)
(* (analysis/anomaly_detector.py), the configuration accessor              *)
(* (config_service/accessor.py), the intelligence stubs (intel/queries.py) *)
(* and the command line entry point that sequences them (main.py).         *)
(*                                                                         *)
(* Text is modelled as a sequence of symbols.  A symbol is a string: one   *)
(* character, or a chunk of characters that the code never looks inside    *)
(* (a failure phrase, a word, a file name).  Rendering a symbol sequence   *)
(* concatenates its symbols.                                               *)
(***************************************************************************)
EXTENDS Integers, Sequences, FiniteSets, TLC

VARIABLES
    \* ---- RuleRegistry (repair_generator.py) ----
    rules,        \* RuleRegistry._rules: the registered rules, in order
    regArg,       \* argument of the last register_rule call (None before the first)
    regRaised,    \* exception raised by the last register_rule call, or NoException
    accepted,     \* the arguments of the register_rule calls that did not raise,
                  \* in call order
    lastRules,    \* the registered rules when the last dispatch was made
    lastLog,      \* error_message of the last dispatch (NoLog before the first)
    lastTenant,   \* tenant of the last dispatch
    suggestion,   \* value returned by the last dispatch (NoValue before the first)
    calls,        \* rule methods the last dispatch invoked, in order
    earlier,      \* what the dispatch before the last returned, when the last
                  \* repeated its log and tenant (NoValue otherwise)
    \* ---- file system and RestorationEngine (engine.py) ----
    srcKind,      \* what backup_path is: "absent", "file" or "dir"
    srcFiles,     \* files of the backup directory: name -> content
    tgtKind,      \* what target_dir is: "absent", "file" or "dir"
    tgtFiles,     \* files of the target directory: name -> content
    tgtInSource,  \* whether target_dir is an entry of the backup_path directory
    patterns,     \* values of config.recovery_settings.backup_formats, in
                  \* dict order
    formatKeys,   \* keys of backup_formats, in the same order
    encryptKey,   \* config.recovery_settings.encrypt_key
    pre,          \* the file system as it was when the last run_restore began
    ret,          \* value returned by the last run_restore (NoValue before the first)
    filesToRestore, \* files_to_restore of the last run_restore
    copied,       \* names the last run_restore copied completely, in order
    faultAt,      \* index in files_to_restore whose copy raised OSError (0: none)
    logged,       \* log records emitted by the last run_restore
    nRuns,        \* number of run_restore calls made so far
    \* ---- analyze_backup (analysis/anomaly_detector.py) ----
    sqlFiles,     \* sql_files of the last analyze_backup call
    logFiles,     \* log_files of the last analyze_backup call
    analysis,     \* what the last analyze_backup call returned
    \* ---- main() (main.py) ----
    pc,           \* position of main()
    argv,         \* parsed command line: action, backup, error_log, tenant
    configOk,     \* whether get_config() succeeds
    logFile,      \* the error log file: "absent", "unreadable" or its content
    intel,        \* what the intelligence collaborators answer
    errorContent, \* error_content read by main (NoLog until read)
    obtained,     \* value main obtained from the registry (NoValue until obtained)
    queries,      \* intelligence queries main issued, in order
    plan,         \* recovery plan main selected ("none" until planned)
    printed,      \* what main printed or logged, in order
    engineRuns,   \* backup paths of the RestorationEngine runs main started
    outcome,      \* how main ended: "running", "returned", "SystemExit", "uncaught"
    exitCode,     \* the process exit status once main has ended (-1 while running)
    \* ---- config_service (config_service/accessor.py) ----
    configFile,    \* what the file CONFIG_PATH names holds
    configCache,   \* accessor._config_cache
    configObjects, \* number of AppConfig objects created so far
    loaderCalls,   \* number of load_raw_config calls made so far
    validateCalls, \* number of AppConfig.model_validate calls made so far
    configCalls,   \* number of get_config calls made so far
    configReturned, \* value the last get_config call returned (NoConfig: none)
    configRaised,  \* exception the last get_config call raised, or NoException
    served         \* the object get_config last returned since the last reset

regVars  == <<rules, regArg, regRaised, accepted, lastRules, lastLog, lastTenant, suggestion,
              calls, earlier>>
fsVars   == <<srcKind, srcFiles, tgtKind, tgtFiles, tgtInSource>>
engVars  == <<patterns, formatKeys, encryptKey, pre, ret, filesToRestore, copied, faultAt,
              logged, nRuns>>
mainVars == <<pc, argv, configOk, logFile, intel, errorContent, obtained,
              queries, plan, printed, engineRuns, outcome, exitCode>>
cfgVars  == <<configFile, configCache, configObjects, loaderCalls, validateCalls,
              configCalls, configReturned, configRaised, served>>
anaVars  == <<sqlFiles, logFiles, analysis>>
vars     == <<regVars, fsVars, engVars, anaVars, mainVars, cfgVars>>

-----------------------------------------------------------------------------
(* Bounds of the model. *)

MaxRules == 3      \* longest rule sequence registered
MaxRuns  == 2      \* run_restore calls made on one file system
MaxCalls == 3      \* get_config calls made in one process

-----------------------------------------------------------------------------
(* Generic helpers. *)

Range(s) == {s[i] : i \in 1..Len(s)}

RECURSIVE Render(_)
Render(s) == IF s = <<>> THEN "" ELSE Head(s) \o Render(Tail(s))

Front(s) == SubSeq(s, 1, Len(s) - 1)

NoValue     == <<"<no value>">>
NoLog       == <<"<no log>">>
NoException == "none"
None        == "<None>"      \* Python's None where a string is optional

-----------------------------------------------------------------------------
(* RepairRule.PATH_REGEX: ['"]?([a-zA-Z]:[\\/][^'"\s]+|/[^\s'"]+)['"]?      *)

Quotes     == {"'", "\""}
Whitespace == {" ", "\n"}
Slashes    == {"/", "\\"}
Letters    == {"C", "D", "c", "d"}      \* the one-letter symbols, [a-zA-Z]

IsPathChar(c) == c \notin (Quotes \cup Whitespace)      \* [^'"\s]

\* Index of the last symbol of the longest run of [^'"\s] beginning at j
\* (j - 1 when the run is empty).
RECURSIVE RunEnd(_, _)
RunEnd(s, j) ==
    IF j <= Len(s) /\ IsPathChar(s[j]) THEN RunEnd(s, j + 1) ELSE j - 1

\* Group 1 tried at index j: the index where it ends, or 0 when neither
\* alternative matches there.
GroupEnd(s, j) ==
    IF /\ j + 3 <= Len(s)
       /\ s[j] \in Letters /\ s[j + 1] = ":" /\ s[j + 2] \in Slashes
       /\ IsPathChar(s[j + 3])
    THEN RunEnd(s, j + 3)
    ELSE IF j + 1 <= Len(s) /\ s[j] = "/" /\ IsPathChar(s[j + 1])
    THEN RunEnd(s, j + 1)
    ELSE 0

\* Where group 1 begins when the pattern is tried at index i: after the
\* optional opening quote.
GroupStart(s, i) == IF s[i] \in Quotes THEN i + 1 ELSE i

MatchesAt(s, i) ==
    LET j == GroupStart(s, i) IN j <= Len(s) /\ GroupEnd(s, j) > 0

NoMatch == <<>>

\* A search that returns the last path of the text, not the first.
PathSearch_rightmost(s) ==
    IF \E i \in 1..Len(s) : MatchesAt(s, i)
    THEN LET i == CHOOSE k \in 1..Len(s) :
                      MatchesAt(s, k) /\ \A m \in (k + 1)..Len(s) : ~MatchesAt(s, m)
             j == GroupStart(s, i)
         IN  SubSeq(s, j, GroupEnd(s, j))
    ELSE NoMatch

\* PATH_REGEX.search(s).group(1), or NoMatch: the leftmost match.
PathSearch(s) ==
    IF \E i \in 1..Len(s) : MatchesAt(s, i)
    THEN LET i == CHOOSE k \in 1..Len(s) :
                      MatchesAt(s, k) /\ \A m \in 1..(k - 1) : ~MatchesAt(s, m)
             j == GroupStart(s, i)
         IN  SubSeq(s, j, GroupEnd(s, j))
    ELSE NoMatch

-----------------------------------------------------------------------------
(* str(Path(p).parent) of pathlib on POSIX. *)

\* The components of p between "/" symbols, empty ones included.
RECURSIVE SplitSlash(_, _, _)
SplitSlash(s, cur, acc) ==
    IF s = <<>> THEN Append(acc, cur)
    ELSE IF Head(s) = "/" THEN SplitSlash(Tail(s), <<>>, Append(acc, cur))
    ELSE SplitSlash(Tail(s), Append(cur, Head(s)), acc)

RECURSIVE DropEmpty(_)
DropEmpty(cs) ==
    IF cs = <<>> THEN <<>>
    ELSE IF Head(cs) = <<>> \/ Head(cs) = <<".">> THEN DropEmpty(Tail(cs))
    ELSE <<Head(cs)>> \o DropEmpty(Tail(cs))

PathRoot(p) ==
    IF p = <<>> \/ p[1] # "/" THEN <<>>
    ELSE IF Len(p) >= 2 /\ p[2] = "/" /\ ~(Len(p) >= 3 /\ p[3] = "/")
    THEN <<"/", "/">>
    ELSE <<"/">>

PathParts(p) == DropEmpty(SplitSlash(p, <<>>, <<>>))

RECURSIVE JoinSlash(_)
JoinSlash(cs) ==
    IF cs = <<>> THEN <<>>
    ELSE IF Len(cs) = 1 THEN Head(cs)
    ELSE Head(cs) \o <<"/">> \o JoinSlash(Tail(cs))

PathParent(p) ==
    LET root  == PathRoot(p)
        parts == PathParts(p)
        up    == IF parts = <<>> THEN <<>> ELSE Front(parts)
        str   == root \o JoinSlash(up)
    IN  IF str = <<>> THEN <<".">> ELSE str

-----------------------------------------------------------------------------
(* The repair rules. *)

PermissionDenied == "Permission denied"
NoSuchFile       == "No such file or directory"

PermissionErrorRule  == "PermissionErrorRule"
MissingDirectoryRule == "MissingDirectoryRule"
CatchAllRule         == "CatchAllRule"       \* the always-matching test rule
RepairRules == {PermissionErrorRule, MissingDirectoryRule, CatchAllRule}
NotARule    == "not_a_rule_instance"

Truthy(tenant) == tenant # None /\ tenant # ""

\* A matching in which the permission rule answers for known tenants only.
RuleMatches_tenantscoped(rule, log, tenant) ==
    CASE rule = PermissionErrorRule  -> PermissionDenied \in Range(log) /\ Truthy(tenant)
      [] rule = MissingDirectoryRule -> NoSuchFile \in Range(log)
      [] rule = CatchAllRule         -> TRUE

\* rule.matches(error_message, tenant)
RuleMatches(rule, log, tenant) ==
    CASE rule = PermissionErrorRule  -> PermissionDenied \in Range(log)
      [] rule = MissingDirectoryRule -> NoSuchFile \in Range(log)
      [] rule = CatchAllRule         -> TRUE

\* A rule that answers an extraction failure with an empty script.
PermissionSentinel_empty == <<>>

PermissionSentinel ==
    <<"# Error: Could not extract a valid path from the 'Permission denied' message.">>
MissingDirSentinel ==
    <<"# Error: Could not extract a valid path from the 'No such file or directory' message.">>
NoSuggestion == <<"No repair suggestion found for the given error.">>

\* A permission script that changes the mode before the owner.
PermissionScript_chmodfirst(log, tenant) ==
    LET path == PathSearch(log) IN
    IF path = NoMatch THEN PermissionSentinel
    ELSE <<"# Repariere Berechtigungsproblem für Pfad: " \o Render(path),
           "chmod -R 755 " \o Render(path)>>
         \o (IF Truthy(tenant)
             THEN <<"chown -R " \o tenant \o "_user:" \o tenant \o "_group "
                    \o Render(path)>>
             ELSE <<>>)

\* A script is the sequence of its lines.
PermissionScript(log, tenant) ==
    LET path == PathSearch(log) IN
    IF path = NoMatch THEN PermissionSentinel
    ELSE <<"# Repariere Berechtigungsproblem für Pfad: " \o Render(path)>>
         \o (IF Truthy(tenant)
             THEN <<"chown -R " \o tenant \o "_user:" \o tenant \o "_group "
                    \o Render(path)>>
             ELSE <<>>)
         \o <<"chmod -R 755 " \o Render(path)>>

MissingDirScript(log, tenant) ==
    LET path == PathSearch(log) IN
    IF path = NoMatch THEN MissingDirSentinel
    ELSE <<"# Erstelle fehlendes Verzeichnis",
           "mkdir -p " \o Render(PathParent(path))>>

\* rule.generate_script(error_message, tenant)
RuleGenerateScript(rule, log, tenant) ==
    CASE rule = PermissionErrorRule  -> PermissionScript(log, tenant)
      [] rule = MissingDirectoryRule -> MissingDirScript(log, tenant)
      [] rule = CatchAllRule         -> <<"# Catch-all script">>

Call(op, i) == [op |-> op, idx |-> i]

\* A loop that builds each rule's script before asking whether it matches.
RECURSIVE DispatchFrom_eager(_, _, _, _, _)
DispatchFrom_eager(rs, i, log, tenant, done) ==
    IF i > Len(rs) THEN [script |-> NoSuggestion, calls |-> done]
    ELSE LET asked == done \o <<Call("generate_script", i), Call("matches", i)>> IN
         IF RuleMatches(rs[i], log, tenant)
         THEN [script |-> RuleGenerateScript(rs[i], log, tenant), calls |-> asked]
         ELSE DispatchFrom_eager(rs, i + 1, log, tenant, asked)

\* A loop that, when no rule matched, falls back on the script of the rule
\* registered last.
RECURSIVE DispatchFrom_fallback(_, _, _, _, _)
DispatchFrom_fallback(rs, i, log, tenant, done) ==
    IF i > Len(rs)
    THEN IF rs = <<>> THEN [script |-> NoSuggestion, calls |-> done]
         ELSE [script |-> RuleGenerateScript(rs[Len(rs)], log, tenant),
               calls  |-> Append(done, Call("generate_script", Len(rs)))]
    ELSE IF RuleMatches(rs[i], log, tenant)
    THEN [script |-> RuleGenerateScript(rs[i], log, tenant),
          calls  |-> done \o <<Call("matches", i), Call("generate_script", i)>>]
    ELSE DispatchFrom_fallback(rs, i + 1, log, tenant,
                               Append(done, Call("matches", i)))

\* The loop of generate_script_suggestion from rule i on; `done` are the
\* rule methods invoked so far.
RECURSIVE DispatchFrom(_, _, _, _, _)
DispatchFrom(rs, i, log, tenant, done) ==
    IF i > Len(rs) THEN [script |-> NoSuggestion, calls |-> done]
    ELSE IF RuleMatches(rs[i], log, tenant)
    THEN [script |-> RuleGenerateScript(rs[i], log, tenant),
          calls  |-> done \o <<Call("matches", i), Call("generate_script", i)>>]
    ELSE DispatchFrom(rs, i + 1, log, tenant, Append(done, Call("matches", i)))

\* A dispatch in which a later matching rule replaces an earlier one.
RECURSIVE LastMatchFrom(_, _, _, _, _, _)
LastMatchFrom(rs, i, log, tenant, done, best) ==
    IF i > Len(rs) THEN [script |-> best, calls |-> done]
    ELSE IF RuleMatches(rs[i], log, tenant)
    THEN LastMatchFrom(rs, i + 1, log, tenant,
             done \o <<Call("matches", i), Call("generate_script", i)>>,
             RuleGenerateScript(rs[i], log, tenant))
    ELSE LastMatchFrom(rs, i + 1, log, tenant,
             Append(done, Call("matches", i)), best)

generate_script_suggestion_lastwins(rs, log, tenant) ==
    LastMatchFrom(rs, 1, log, tenant, <<>>, NoSuggestion)

\* RuleRegistry.generate_script_suggestion(error_message, tenant)
generate_script_suggestion(rs, log, tenant) ==
    DispatchFrom(rs, 1, log, tenant, <<>>)

\* A registration that puts the new rule in front of the others.
register_rule_prepend(rs, obj) ==
    IF obj \notin RepairRules
    THEN [rules |-> rs, raised |-> "TypeError"]
    ELSE [rules |-> <<obj>> \o rs, raised |-> NoException]

\* A registration that appends whatever it is given.
register_rule_unchecked(rs, obj) ==
    [rules |-> Append(rs, obj), raised |-> NoException]

\* RuleRegistry.register_rule(rule) on the rule sequence rs: the sequence it
\* leaves and the exception it raises.
register_rule(rs, obj) ==
    IF obj \notin RepairRules             \* not isinstance(rule, RepairRule)
    THEN [rules |-> rs, raised |-> "TypeError"]
    ELSE [rules |-> Append(rs, obj), raised |-> NoException]

\* A dispatch that uses a rule up: the rule that answered is taken out of
\* the registry.
RECURSIVE RulesAfterDispatch_consume(_, _, _)
RulesAfterDispatch_consume(rs, log, tenant) ==
    IF rs = <<>> THEN <<>>
    ELSE IF RuleMatches(Head(rs), log, tenant) THEN Tail(rs)
    ELSE <<Head(rs)>> \o RulesAfterDispatch_consume(Tail(rs), log, tenant)

\* self._rules after generate_script_suggestion(log, tenant): the loop only
\* reads the list.
RulesAfterDispatch(rs, log, tenant) == rs

\* The methods class RuleRegistry defines; any other attribute looked up on
\* an instance raises AttributeError.
RegistryMethods == {"__init__", "register_rule", "generate_script_suggestion"}

-----------------------------------------------------------------------------
(* The logs and tenants the model draws from. *)

Sp == " "
Quoted(p) == <<"'">> \o p \o <<"'">>

PathAcme    == <<"/", "srv", "/", "acme", "/", "file.zip">>
PathReports == <<"/", "opt", "/", "app", "/", "daily.csv">>
PathDrive   == <<"C", ":", "\\", "data", "\\", "x.db">>

Logs ==
    { <<"CRITICAL:", Sp, PermissionDenied, Sp, "for", Sp>> \o Quoted(PathAcme),
      <<"Failed", Sp>> \o PathAcme \o <<Sp, PermissionDenied>>,
      <<PermissionDenied, ",", Sp, "no", Sp, "path">>,
      <<NoSuchFile, ":", Sp>> \o Quoted(PathReports),
      <<NoSuchFile, ",", Sp, "no", Sp, "path">>,
      <<PermissionDenied, Sp>> \o PathDrive \o <<Sp, NoSuchFile, Sp>> \o PathReports,
      <<"Database", Sp, "connection", Sp, "timed", Sp, "out">>,
      <<"see", Sp>> \o Quoted(PathReports),
      <<NoSuchFile, ":", Sp, "/", "/">> }

Tenants == {None, "", "acme"}


-----------------------------------------------------------------------------
(* The file system the RestorationEngine works on.  A directory holds files *)
(* only, except that the target directory may be an entry of the backup     *)
(* directory (target_dir = backup_path / TargetName); a file's content is   *)
(* one value.                                                               *)

Name(stem, ext) == <<stem, ".", ext>>
FileNames == {Name("a", "sql"), Name("b", "log"), Name("c", "txt")}

\* The bytes backup file n holds, the bytes a file already in the target
\* holds, and what an interrupted copy leaves behind.
SourceContent(n) == <<"backup of">> \o n
StaleContent     == <<"stale">>
PartialContent   == <<"partial">>

EmptyDir == [n \in {} |-> StaleContent]

\* The name target_dir has in the backup directory when it lies inside it,
\* and what stands for the content of an entry that is not a regular file
\* holding a backup.
TargetName == <<"restored">>
DirEntry   == <<"directory">>
OtherFile  == <<"not a directory">>

\* The entries of the backup directory: its files and, when the target lies
\* inside it and exists, the target.
SourceEntries(sf, inside, tk) ==
    IF inside /\ tk # "absent"
    THEN [n \in DOMAIN sf \cup {TargetName} |->
            IF n = TargetName THEN (IF tk = "dir" THEN DirEntry ELSE OtherFile)
            ELSE sf[n]]
    ELSE sf
Kinds    == {"absent", "file", "dir"}

Snapshot(sk, sf, tk, tf) ==
    [srcKind |-> sk, srcFiles |-> sf, tgtKind |-> tk, tgtFiles |-> tf]

\* Path.glob(pattern) on one file name: "*" matches any run of symbols, every
\* other symbol matches itself.
RECURSIVE GlobMatch(_, _)
GlobMatch(p, n) ==
    IF p = <<>> THEN n = <<>>
    ELSE IF Head(p) = "*"
    THEN GlobMatch(Tail(p), n) \/ (n # <<>> /\ GlobMatch(p, Tail(n)))
    ELSE n # <<>> /\ Head(n) = Head(p) /\ GlobMatch(Tail(p), Tail(n))

\* A listing of the directory that forgets the pattern (iterdir for glob).
GlobNames_iterdir(kind, files, pattern) ==
    IF kind = "dir" THEN DOMAIN files ELSE {}

\* The names self.backup_path.glob(pattern) yields (non-recursive).
GlobNames(kind, files, pattern) ==
    IF kind = "dir" THEN {n \in DOMAIN files : GlobMatch(pattern, n)} ELSE {}

\* glob yields its matches in the directory's scan order, which is any order.
Orderings(S) ==
    {s \in [1..Cardinality(S) -> S] : \A i, j \in DOMAIN s : s[i] = s[j] => i = j}

\* A list that takes each file once, at its first pattern.
RECURSIVE FileLists_unique(_, _, _)
FileLists_unique(kind, files, pats) ==
    IF pats = <<>> THEN {<<>>}
    ELSE {first \o SelectSeq(rest, LAMBDA n :
                                  n \notin GlobNames(kind, files, Head(pats))) :
            first \in Orderings(GlobNames(kind, files, Head(pats))),
            rest  \in FileLists_unique(kind, files, Tail(pats))}

\* The values files_to_restore can take: for each pattern of
\* self.patterns.values(), in dict order, its matches appended.
RECURSIVE FileLists(_, _, _)
FileLists(kind, files, pats) ==
    IF pats = <<>> THEN {<<>>}
    ELSE {first \o rest :
            first \in Orderings(GlobNames(kind, files, Head(pats))),
            rest  \in FileLists(kind, files, Tail(pats))}

\* self.backup_path.is_dir() answering for anything that exists.
SourceIsDir_exists(kind) == kind # "absent"

\* self.backup_path.is_dir()
SourceIsDir(kind) == kind = "dir"

\* A target check that only asks whether the target is missing.
TargetInvalid_absent(kind) == kind = "absent"

\* self.target_dir.exists() and not self.target_dir.is_dir()
TargetInvalid(kind) == kind = "file"

WriteFile(files, n, content) ==
    [m \in DOMAIN files \cup {n} |-> IF m = n THEN content ELSE files[m]]

\* The copy loop from entry i on.  The copy of entry k raises OSError (k = 0:
\* none does); `mode` says whether the failed copy left the destination
\* untouched or partly written.
RECURSIVE CopyFrom(_, _, _, _, _, _)
CopyFrom(list, i, k, mode, tgt, done) ==
    IF i > Len(list) THEN [files |-> tgt, copied |-> done, raised |-> FALSE]
    ELSE IF i = k
    THEN [files  |-> IF mode = "partial"
                     THEN WriteFile(tgt, list[i], PartialContent) ELSE tgt,
          copied |-> done, raised |-> TRUE]
    ELSE CopyFrom(list, i + 1, k, mode,
                  WriteFile(tgt, list[i], SourceContent(list[i])),
                  Append(done, list[i]))

\* A copy loop that logs the error of entry k and carries on with the rest.
RECURSIVE CopyOn(_, _, _, _, _, _)
CopyOn(list, i, k, mode, tgt, done) ==
    IF i > Len(list) THEN [files |-> tgt, copied |-> done, raised |-> k # 0]
    ELSE IF i = k
    THEN CopyOn(list, i + 1, k, mode,
                IF mode = "partial"
                THEN WriteFile(tgt, list[i], PartialContent) ELSE tgt,
                done)
    ELSE CopyOn(list, i + 1, k, mode,
                WriteFile(tgt, list[i], SourceContent(list[i])),
                Append(done, list[i]))

\* A copy loop that refuses to replace a file the target already holds.
CopyAll_exclusive(list, k, mode, tgt) ==
    IF \E i \in 1..Len(list) : list[i] \in DOMAIN tgt
    THEN [files |-> tgt, copied |-> <<>>, raised |-> TRUE]
    ELSE CopyFrom(list, 1, k, mode, tgt, <<>>)

CopyAll_carryon(list, k, mode, tgt) == CopyOn(list, 1, k, mode, tgt, <<>>)

\* try: for file_path in files_to_restore: shutil.copy2(...)
CopyAll(list, k, mode, tgt) == CopyFrom(list, 1, k, mode, tgt, <<>>)

Result(r, tk, tf, list, done, k, msgs) ==
    [ret |-> r, tgtKind |-> tk, tgtFiles |-> tf, list |-> list,
     copied |-> done, faultAt |-> k, logged |-> msgs]

StartMsg == "info: Starting restoration"

\* logger.info("Found %d files to restore.", len(files_to_restore))
FoundMsg(n) == "info: Found " \o ToString(n) \o " files to restore."

\* The rest of run_restore once both directory checks passed, with the
\* target directory made before the list is looked at.
RestoreChecked_mkdirfirst(tk, tf, key, list, k, mode) ==
    IF list = <<>>
    THEN Result(TRUE, "dir", tf, list, <<>>, 0,
                <<StartMsg, "warning: No backup files found">>)
    ELSE LET c == CopyAll(list, k, mode, tf) IN
         Result(~c.raised, "dir", c.files, list, c.copied, k, <<StartMsg>>)

\* The rest of run_restore with the copies left out when a key is set
\* (files that would first have to be decrypted are skipped).
RestoreChecked_keyskips(tk, tf, key, list, k, mode) ==
    IF list = <<>>
    THEN Result(TRUE, tk, tf, list, <<>>, 0,
                <<StartMsg, "warning: No backup files found">>)
    ELSE IF key # None /\ key # ""
    THEN Result(TRUE, "dir", tf, list, <<>>, 0,
                <<StartMsg, FoundMsg(Len(list)), "info: Simulating decryption",
                  "info: Restoration completed">>)
    ELSE LET c == CopyAll(list, k, mode, tf) IN
         Result(~c.raised, "dir", c.files, list, c.copied, k,
                <<StartMsg, FoundMsg(Len(list))>>
                \o (IF c.raised
                    THEN <<"critical: I/O error during file copy">>
                    ELSE <<"info: Restoration completed">>))

\* The rest of run_restore with the copies made into an emptied target
\* directory.
RestoreChecked_freshtarget(tk, tf, key, list, k, mode) ==
    IF list = <<>>
    THEN Result(TRUE, tk, tf, list, <<>>, 0,
                <<StartMsg, "warning: No backup files found">>)
    ELSE LET c == CopyAll(list, k, mode, EmptyDir)
             found == <<StartMsg, FoundMsg(Len(list))>>
                      \o (IF key # None /\ key # ""
                          THEN <<"info: Simulating decryption">> ELSE <<>>)
         IN  Result(~c.raised, "dir", c.files, list, c.copied, k,
                    found \o (IF c.raised
                              THEN <<"critical: I/O error during file copy">>
                              ELSE <<"info: Restoration completed">>))

\* The rest of run_restore once both directory checks passed
\* (engine.py lines 47-69).
RestoreChecked(tk, tf, key, list, k, mode) ==
    IF list = <<>>
    THEN Result(TRUE, tk, tf, list, <<>>, 0,
                <<StartMsg, "warning: No backup files found">>)
    ELSE LET c == CopyAll(list, k, mode, tf)
             found == <<StartMsg, FoundMsg(Len(list))>>
                      \o (IF key # None /\ key # ""
                          THEN <<"info: Simulating decryption">> ELSE <<>>)
         IN  Result(~c.raised, "dir", c.files, list, c.copied, k,
                    found \o (IF c.raised
                              THEN <<"critical: I/O error during file copy">>
                              ELSE <<"info: Restoration completed">>))

\* RestorationEngine.run_restore(): `list` is what the globs yielded, k and
\* mode are the copy failure the file system produces.
run_restore(sk, sf, tk, tf, key, list, k, mode) ==
    IF ~SourceIsDir(sk)
    THEN Result(FALSE, tk, tf, <<>>, <<>>, 0,
                <<StartMsg, "error: Backup source directory does not exist">>)
    ELSE IF TargetInvalid(tk)
    THEN Result(FALSE, tk, tf, <<>>, <<>>, 0,
                <<StartMsg, "error: Target directory is not a valid directory">>)
    ELSE RestoreChecked(tk, tf, key, list, k, mode)

\* The configured pattern lists the model draws from (the values of
\* backup_formats, in order).
PatSql  == <<"*", ".", "sql">>
PatLog  == <<"*", ".", "log">>
PatA    == <<"a", "*">>
PatZip  == <<"*", ".", "zip">>
PatAll  == <<"*">>
PatternConfigs ==
    { <<>>, <<PatSql>>, <<PatLog, PatSql>>, <<PatSql, PatA, PatLog>>, <<PatZip>>,
      <<PatAll>> }

\* The keys the model gives the patterns of a configuration.
KeysOf(pats) ==
    [i \in 1..Len(pats) |->
        IF pats[i] = PatSql THEN "db"
        ELSE IF pats[i] = PatLog THEN "logs" ELSE "archive"]

SourceDirs == {[n \in S |-> SourceContent(n)] : S \in SUBSET FileNames}
TargetDirs == UNION {[S -> {StaleContent}] : S \in SUBSET FileNames}


-----------------------------------------------------------------------------
(* analysis/anomaly_detector.py.  A file's size is the length of its        *)
(* content; an empty file holds <<>>.                                       *)

NoAnalysis == [status |-> "none", details |-> [error |-> "none"]]

\* recovery_conf.backup_formats.get(key, default)
FormatGet(keys, pats, key, default) ==
    IF \E i \in 1..Len(keys) : keys[i] = key
    THEN pats[CHOOSE i \in 1..Len(keys) : keys[i] = key]
    ELSE default

\* An analysis that looks for the log files before it looks into the first
\* SQL file.
analyze_backup_logsfirst(kind, files, sql, log) ==
    IF kind # "dir"
    THEN [status |-> "error", details |-> [error |-> "Backup directory not found"]]
    ELSE IF sql = <<>>
    THEN [status |-> "error", details |-> [error |-> "No SQL files found"]]
    ELSE IF log = <<>>
    THEN [status |-> "warn", details |-> [warning |-> "No log files found"]]
    ELSE IF Len(files[sql[1]]) = 0
    THEN [status |-> "error", details |-> [error |-> "SQL file is empty"]]
    ELSE [status |-> "ok",
          details |-> [sql_file_count |-> Len(sql), log_file_count |-> Len(log),
                       first_sql_file_size |-> Len(files[sql[1]])]]

\* analyze_backup(backup_path_str, config): `sql` and `log` are what the two
\* globs yielded, in the order they yielded it.
analyze_backup(kind, files, sql, log) ==
    IF kind # "dir"
    THEN [status |-> "error", details |-> [error |-> "Backup directory not found"]]
    ELSE IF sql = <<>>
    THEN [status |-> "error", details |-> [error |-> "No SQL files found"]]
    ELSE IF Len(files[sql[1]]) = 0
    THEN [status |-> "error", details |-> [error |-> "SQL file is empty"]]
    ELSE IF log = <<>>
    THEN [status |-> "warn", details |-> [warning |-> "No log files found"]]
    ELSE [status |-> "ok",
          details |-> [sql_file_count |-> Len(sql), log_file_count |-> Len(log),
                       first_sql_file_size |-> Len(files[sql[1]])]]

\* The backup directories analyze_backup is tried on: any of the files,
\* each empty or not.
AnalysisDirs ==
    {[n \in S |-> IF n \in E THEN <<>> ELSE SourceContent(n)] :
        S \in SUBSET FileNames, E \in SUBSET FileNames}

\* The backup_formats analyze_backup is tried with, as keys and values: the
\* tests' own, none (both defaults apply), db alone, ones whose db pattern
\* matches every file and whose logs pattern matches none, and one without
\* either key.
AnalysisFormats ==
    { <<<<"logs", "db">>, <<PatLog, PatSql>>>>,
      <<<<>>, <<>>>>,
      <<<<"db">>, <<PatAll>>>>,
      <<<<"db", "logs">>, <<PatAll, PatZip>>>>,
      <<<<"archive">>, <<PatZip>>>> }

-----------------------------------------------------------------------------
(* intel/queries.py.  The stubs return fixed values and stand for remote    *)
(* collaborators; main depends on what they answer, so the two versions are *)
(* inputs of a run, the stubs' own values among them.                       *)

StableBackupPath == "/tmp/backups/2025-09-10_04-00-00_stable/"
Versions == {"v1.2.4", "v1.3.5", "v1.0"}

\* get_migration_plan(from_version, to_version)
get_migration_plan(from, to) ==
    IF from = "v1.2.4" /\ to = "v1.3.5"
    THEN <<"migrate_v1.2.4_to_v1.3.0.py", "migrate_v1.3.0_to_v1.3.5.py">>
    ELSE <<>>

-----------------------------------------------------------------------------
(* config_service: the loader, the validation and the cached accessor.      *)

NoConfig == [id |-> 0, settings |-> "<none>"]      \* _config_cache is None

\* What the configuration file can hold: nothing (the file is missing),
\* bytes that are no UTF-8 text, text that is no YAML, YAML that is no
\* mapping, a mapping that lacks a required field, or one of two complete
\* settings.
ValidSettings == {"settings_v1", "settings_v2"}
ConfigFiles ==
    {"absent", "not_utf8", "not_yaml", "not_a_mapping", "incomplete"}
    \cup ValidSettings

\* load_raw_config(config_path): OSError and yaml.YAMLError are turned into
\* ConfigFileError; the UnicodeDecodeError the text stream raises inside
\* yaml.safe_load is neither and leaves the function as it is.
load_raw_config(file) ==
    IF file \in {"absent", "not_yaml", "not_a_mapping"}
    THEN [raised |-> "ConfigFileError", raw |-> "<none>"]
    ELSE IF file = "not_utf8"
    THEN [raised |-> "UnicodeDecodeError", raw |-> "<none>"]
    ELSE [raised |-> NoException, raw |-> file]

\* AppConfig.model_validate(raw_config): a new object, the n-th created.
model_validate(raw, n) ==
    IF raw \in ValidSettings
    THEN [raised |-> NoException, object |-> [id |-> n, settings |-> raw]]
    ELSE [raised |-> "ValidationError", object |-> NoConfig]

ConfigResult(cache, returned, raised, loads, validations, objects) ==
    [cache |-> cache, returned |-> returned, raised |-> raised, loads |-> loads,
     validations |-> validations, objects |-> objects]

\* An accessor that validates and returns but never fills the cache.
get_config_uncached(cache, file, objects) ==
    LET raw == load_raw_config(file) IN
    IF raw.raised # NoException
    THEN ConfigResult(cache, NoConfig, raw.raised, 1, 0, objects)
    ELSE LET v == model_validate(raw.raw, objects + 1) IN
         IF v.raised # NoException
         THEN ConfigResult(cache, NoConfig, "ConfigValidationError", 1, 1, objects)
         ELSE ConfigResult(cache, v.object, NoException, 1, 1, objects + 1)

\* get_config() with _config_cache = cache: the cache it leaves, what it
\* returns or raises, and the loader and validation calls it makes.
get_config(cache, file, objects) ==
    IF cache # NoConfig
    THEN ConfigResult(cache, cache, NoException, 0, 0, objects)
    ELSE LET raw == load_raw_config(file) IN
         IF raw.raised # NoException
         THEN ConfigResult(cache, NoConfig, raw.raised, 1, 0, objects)
         ELSE LET v == model_validate(raw.raw, objects + 1) IN
              IF v.raised # NoException
              THEN ConfigResult(cache, NoConfig, "ConfigValidationError", 1, 1,
                                objects)
              ELSE ConfigResult(v.object, v.object, NoException, 1, 1,
                                objects + 1)

-----------------------------------------------------------------------------
(* main(): the command line. *)

Choices == {"restore", "test", "analyze", "repair", "intelligent-restore"}
BackupArg == "/backup"
LogArg    == "/var/log/error.log"

Given(arg) == arg # None /\ arg # ""          \* "if not args.x" is false

\* How a run of main ends.
Returned(code)   == [outcome |-> "returned", exitCode |-> code, exc |-> NoException]
SysExit(code)    == [outcome |-> "SystemExit", exitCode |-> code, exc |-> "SystemExit"]
Uncaught(exc)    == [outcome |-> "uncaught", exitCode |-> 1, exc |-> exc]

\* Path(args.error_log).read_text(encoding="utf-8")
ReadText(file) ==
    CASE file.state = "absent"     -> [raised |-> "FileNotFoundError", text |-> NoLog]
      [] file.state = "unreadable" -> [raised |-> "PermissionError", text |-> NoLog]
      [] file.state = "readable"   -> [raised |-> NoException, text |-> file.content]

\* The registry main builds: RuleRegistry() and the two register_rule calls.
MainRules == <<PermissionErrorRule, MissingDirectoryRule>>

\* The registry method main looks up for the diagnosis (main.py lines 89, 114).
DiagnosisMethod == "find_repair"

\* registry.<method>(error_content, tenant=args.tenant) on a RuleRegistry.
CallRegistry(method, rs, log, tenant) ==
    IF method \notin RegistryMethods
    THEN [raised |-> "AttributeError", value |-> NoValue]
    ELSE [raised |-> NoException,
          value  |-> generate_script_suggestion(rs, log, tenant).script]

Run(end, text, got, qs, pl, out, runs) ==
    [end |-> end, errorContent |-> text, obtained |-> got, queries |-> qs,
     plan |-> pl, printed |-> out, engineRuns |-> runs]

StartBanner  == "--- Starting Intelligent Restore Protocol ---"
Step2Banner  == "Step 2: Gathering intelligence..."
Step3Banner  == "Step 3: Formulating a plan..."
FinishBanner == "--- Intelligent Restore Protocol Finished ---"
CriticalMsg  == "CRITICAL FAILURE: No migration path found. Manual intervention required."

Q(name, arg) == [query |-> name, arg |-> arg]

\* Steps 2 and 3 of the intelligent-restore action (main.py lines 128-159),
\* entered with error_content `text`, the registry's answer `got` and the
\* lines printed so far.
GatherAndPlan(text, got, out, facts) ==
    LET qs   == <<Q("get_last_stable_backup_path", None),
                  Q("get_codebase_version", None),
                  Q("get_backup_version", StableBackupPath)>>
        out2 == out \o <<Step2Banner, "Last stable backup", "Current codebase version",
                         Step3Banner>>
    IN  IF facts.backup = facts.codebase
        THEN Run(Returned(0), text, got, qs, "DirectRestore",
                 out2 \o <<"Plan: Direct restore. No migration needed.", FinishBanner>>,
                 <<>>)
        ELSE LET scripts == get_migration_plan(facts.backup, facts.codebase)
                 qs2     == Append(qs, Q("get_migration_plan",
                                         <<facts.backup, facts.codebase>>))
                 out3    == Append(out2, "Plan: Schema-Drift detected.")
             IN  IF scripts = <<>>
                 THEN Run(SysExit(1), text, got, qs2, "none",
                          Append(out3, CriticalMsg), <<>>)
                 ELSE Run(Returned(0), text, got, qs2, "MigratedRestore",
                          out3 \o <<"Migration steps found", "SIMULATING", FinishBanner>>,
                          <<>>)

\* The intelligent-restore action (main.py lines 102-159).
IntelligentRestoreRun(args, file, facts) ==
    IF ~Given(args.error_log)
    THEN Run(SysExit(2), NoLog, NoValue, <<>>, "none", <<"usage error">>, <<>>)
    ELSE LET read == ReadText(file) IN
         IF read.raised # NoException
         THEN Run(Uncaught(read.raised), NoLog, NoValue, <<>>, "none",
                  <<StartBanner>>, <<>>)
         ELSE LET r == CallRegistry(DiagnosisMethod, MainRules, read.text, args.tenant) IN
              IF r.raised # NoException
              THEN Run(Uncaught(r.raised), read.text, NoValue, <<>>, "none",
                       <<StartBanner>>, <<>>)
              ELSE GatherAndPlan(read.text, r.value,
                       <<StartBanner,
                         IF r.value # NoSuggestion
                         THEN "Step 1: Found a potential quick fix."
                         ELSE "Step 1: No quick fix found. Proceeding with restore.">>,
                       facts)

\* The repair action (main.py lines 71-100).
RepairRun(args, file) ==
    IF ~Given(args.error_log)
    THEN Run(SysExit(2), NoLog, NoValue, <<>>, "none", <<"usage error">>, <<>>)
    ELSE LET read == ReadText(file) IN
         IF read.raised = "FileNotFoundError"
         THEN Run(Returned(1), NoLog, NoValue, <<>>, "none",
                  <<"error: Error log file not found">>, <<>>)
         ELSE IF read.raised # NoException
         THEN Run(Returned(1), NoLog, NoValue, <<>>, "none",
                  <<"error: Error reading log file">>, <<>>)
         ELSE LET r == CallRegistry(DiagnosisMethod, MainRules, read.text, args.tenant) IN
              IF r.raised # NoException
              THEN Run(Uncaught(r.raised), read.text, NoValue, <<>>, "none", <<>>, <<>>)
              ELSE Run(Returned(0), read.text, r.value, <<>>, "none",
                       IF r.value # NoSuggestion
                       THEN <<"--- Suggested Repair Script ---", Render(r.value)>>
                       ELSE <<"warning: No repair rule matched", Render(r.value)>>,
                       <<>>)


-----------------------------------------------------------------------------
(* State machine: the registry. *)

RegistryIdle ==
    /\ rules = <<>> /\ regArg = None /\ regRaised = NoException
    /\ accepted = <<>>
    /\ lastRules = <<>> /\ lastLog = NoLog /\ lastTenant = None
    /\ suggestion = NoValue /\ calls = <<>> /\ earlier = NoValue

\* RuleRegistry.register_rule(rule)
RegisterRule ==
    /\ Len(rules) < MaxRules
    /\ \E obj \in RepairRules \cup {NotARule} :
         LET r == register_rule(rules, obj) IN
         /\ regArg' = obj /\ regRaised' = r.raised /\ rules' = r.rules
         /\ accepted' = (IF r.raised = NoException
                         THEN Append(accepted, obj) ELSE accepted)
    /\ UNCHANGED <<lastRules, lastLog, lastTenant, suggestion, calls, earlier>>
    /\ UNCHANGED <<fsVars, engVars, anaVars, mainVars, cfgVars>>

\* One call of generate_script_suggestion(log, tenant) on the registry.
DispatchCall(log, tenant) ==
    LET r == generate_script_suggestion(rules, log, tenant) IN
    /\ lastRules' = rules /\ lastLog' = log /\ lastTenant' = tenant
    /\ suggestion' = r.script /\ calls' = r.calls
    /\ rules' = RulesAfterDispatch(rules, log, tenant)
    /\ UNCHANGED <<regArg, regRaised, accepted>>
    /\ UNCHANGED <<fsVars, engVars, anaVars, mainVars, cfgVars>>

\* RuleRegistry.generate_script_suggestion(error_message, tenant)
Dispatch ==
    /\ \E log \in Logs, tenant \in Tenants : DispatchCall(log, tenant)
    /\ earlier' = NoValue

\* The caller makes its last call once more: same log, same tenant.
DispatchAgain ==
    /\ lastLog # NoLog
    /\ DispatchCall(lastLog, lastTenant)
    /\ earlier' = suggestion

-----------------------------------------------------------------------------
(* State machine: the restoration engine on a file system. *)

AnalysisIdle == sqlFiles = <<>> /\ logFiles = <<>> /\ analysis = NoAnalysis

EngineIdle ==
    /\ pre = Snapshot(srcKind, srcFiles, tgtKind, tgtFiles)
    /\ ret = "none" /\ filesToRestore = <<>> /\ copied = <<>>
    /\ faultAt = 0 /\ logged = <<>> /\ nRuns = 0

NoFileSystem ==
    /\ srcKind = "absent" /\ srcFiles = EmptyDir
    /\ tgtKind = "absent" /\ tgtFiles = EmptyDir /\ tgtInSource = FALSE
    /\ patterns = <<>> /\ formatKeys = <<>> /\ encryptKey = None

\* The file systems a run starts on.  Of those whose target lies inside the
\* backup directory the model takes the ones with an empty or missing target
\* and at most the two backup files a.sql and b.log.
FileSystems ==
    /\ srcKind \in Kinds
    /\ srcFiles \in (IF srcKind = "dir" THEN SourceDirs ELSE {EmptyDir})
    /\ tgtKind \in Kinds
    /\ tgtFiles \in (IF tgtKind = "dir" THEN TargetDirs ELSE {EmptyDir})
    /\ patterns \in PatternConfigs
    /\ formatKeys = KeysOf(patterns)
    /\ encryptKey \in {None, "test-secret-key"}
    /\ tgtInSource \in BOOLEAN
    /\ tgtInSource => /\ srcKind = "dir" /\ tgtKind # "file"
                      /\ tgtFiles = EmptyDir /\ encryptKey = None
                      /\ DOMAIN srcFiles \subseteq {Name("a", "sql"), Name("b", "log")}

\* A restore that moves the files it restores out of the backup.
SourceAfter_moved(sf, done) ==
    [n \in DOMAIN sf \ Range(done) |-> sf[n]]

\* The files of the backup directory after a call that copied `done`:
\* shutil.copy2 reads its source and leaves it in place, and run_restore
\* writes under target_dir only.
SourceAfter(sf, done) == sf

\* One call of RestorationEngine(backup_path, config).run_restore(): the
\* globs yield `list`, and the copy of entry k fails in the way `mode` says.
EngineRun(list, k, mode) ==
    LET r == run_restore(srcKind, srcFiles, tgtKind, tgtFiles, encryptKey,
                         list, k, mode)
    IN  /\ pre' = Snapshot(srcKind, srcFiles, tgtKind, tgtFiles)
        /\ tgtKind' = r.tgtKind /\ tgtFiles' = r.tgtFiles
        /\ ret' = (IF r.ret THEN "True" ELSE "False")
        /\ filesToRestore' = r.list /\ copied' = r.copied
        /\ faultAt' = r.faultAt /\ logged' = r.logged
        /\ nRuns' = (IF nRuns < MaxRuns THEN nRuns + 1 ELSE nRuns)
        /\ srcFiles' = SourceAfter(srcFiles, r.copied)
        /\ UNCHANGED <<srcKind, tgtInSource, patterns, formatKeys, encryptKey>>

\* The copy failures that can follow a list: the copy of any one entry may
\* raise, and no failure has a mode.  shutil.copy2 of a directory raises
\* IsADirectoryError when it opens the source, before it touches the
\* destination, so a list that yields the target directory fails there at
\* the latest.
Faults(list) ==
    LET dirs == {i \in 1..Len(list) : list[i] = TargetName} IN
    IF dirs = {}
    THEN {<<k, mode>> : k \in 1..Len(list), mode \in {"untouched", "partial"}}
         \cup {<<0, "untouched">>}
    ELSE LET p == CHOOSE i \in dirs : \A j \in dirs : i <= j IN
         {<<k, mode>> : k \in 1..(p - 1), mode \in {"untouched", "partial"}}
         \cup {<<p, "untouched">>}

\* The lists the globs can yield and the copy failures that can follow.
EngineInputs ==
    UNION {{<<list, f[1], f[2]>> : f \in Faults(list)} :
           list \in FileLists(srcKind,
                              SourceEntries(srcFiles, tgtInSource, tgtKind),
                              patterns)}

\* The lists the two globs of analyze_backup can yield; no glob is made
\* when backup_path is no directory.
AnalysisInputs ==
    IF srcKind # "dir" THEN {<<<<>>, <<>>>>}
    ELSE LET entries == SourceEntries(srcFiles, tgtInSource, tgtKind)
             sqlPat  == FormatGet(formatKeys, patterns, "db", PatSql)
             logPat  == FormatGet(formatKeys, patterns, "logs", PatLog)
         IN  {<<sql, log>> :
                 sql \in Orderings(GlobNames(srcKind, entries, sqlPat)),
                 log \in Orderings(GlobNames(srcKind, entries, logPat))}

\* One call of analyze_backup(backup_path_str, config); it only reads.
AnalyzeCall(sql, log) ==
    /\ analysis' = analyze_backup(srcKind,
                                  SourceEntries(srcFiles, tgtInSource, tgtKind),
                                  sql, log)
    /\ sqlFiles' = sql /\ logFiles' = log
    /\ UNCHANGED <<fsVars, engVars>>

AnalyzeBackup ==
    /\ pc = "off"
    /\ \E in \in AnalysisInputs : AnalyzeCall(in[1], in[2])
    /\ UNCHANGED <<regVars, mainVars, cfgVars>>

RunRestore ==
    /\ pc = "off"
    /\ \E in \in EngineInputs : EngineRun(in[1], in[2], in[3])
    /\ UNCHANGED <<regVars, anaVars, mainVars, cfgVars>>

-----------------------------------------------------------------------------
(* State machine: main(). *)

MainIdle ==
    /\ errorContent = NoLog /\ obtained = NoValue /\ queries = <<>>
    /\ plan = "none" /\ printed = <<>> /\ engineRuns = <<>>
    /\ outcome = "running" /\ exitCode = -1

NoMain ==
    /\ pc = "off" /\ MainIdle
    /\ argv = [action |-> None, backup |-> None, error_log |-> None, tenant |-> None]
    /\ configOk = TRUE
    /\ logFile = [state |-> "absent", content |-> NoLog]
    /\ intel = [codebase |-> "v1.3.5", backup |-> "v1.2.4"]

Argvs ==
    [action    : Choices \cup {"invalid_action"},
     backup    : {None, BackupArg},
     error_log : {None, LogArg},
     tenant    : {None, "acme"}]

LogFiles ==
    {[state |-> "absent", content |-> NoLog],
     [state |-> "unreadable", content |-> NoLog]}
    \cup {[state |-> "readable", content |-> l] : l \in Logs}

End(e) ==
    /\ pc' = "done" /\ outcome' = e.outcome /\ exitCode' = e.exitCode

\* A main without the handler: the ConfigServiceError leaves main uncaught.
ConfigFailure_unhandled ==
    [end |-> Uncaught("ConfigServiceError"), printed |-> <<>>]

\* except ConfigServiceError: logging.critical(...); return 1
ConfigFailure ==
    [end |-> Returned(1), printed |-> <<"critical: Configuration error">>]

\* settings = get_config(), and the ConfigServiceError handler.
GetConfig ==
    /\ pc = "get_config"
    /\ IF configOk
       THEN pc' = "parse_args" /\ UNCHANGED <<printed, outcome, exitCode>>
       ELSE End(ConfigFailure.end) /\ printed' = ConfigFailure.printed
    /\ UNCHANGED <<argv, configOk, logFile, intel, errorContent, obtained,
                   queries, plan, engineRuns>>
    /\ UNCHANGED <<regVars, fsVars, engVars, anaVars, cfgVars>>

\* args = parser.parse_args(): --action is required and one of the choices.
ParseArgs ==
    /\ pc = "parse_args"
    /\ IF argv.action \in Choices
       THEN pc' = argv.action /\ UNCHANGED <<printed, outcome, exitCode>>
       ELSE End(SysExit(2)) /\ printed' = <<"usage error">>
    /\ UNCHANGED <<argv, configOk, logFile, intel, errorContent, obtained,
                   queries, plan, engineRuns>>
    /\ UNCHANGED <<regVars, fsVars, engVars, anaVars, cfgVars>>

\* A restore action that reports the failure of run_restore to the shell.
RestoreExit_reported(returned) ==
    IF returned = "True" THEN Returned(0) ELSE Returned(1)

\* How main ends after engine.run_restore() returned `returned`: the value
\* is dropped and main falls through to return 0.
RestoreExit(returned) == Returned(0)

\* The restore action (main.py lines 59-63), then return 0.
Restore ==
    /\ pc = "restore"
    /\ IF ~Given(argv.backup)
       THEN /\ End(SysExit(2)) /\ printed' = <<"usage error">>
            /\ UNCHANGED <<engineRuns, fsVars, engVars>>
       ELSE /\ \E in \in EngineInputs : EngineRun(in[1], in[2], in[3])
            /\ engineRuns' = Append(engineRuns, argv.backup)
            /\ End(RestoreExit(ret')) /\ UNCHANGED printed
    /\ UNCHANGED <<argv, configOk, logFile, intel, errorContent, obtained,
                   queries, plan>>
    /\ UNCHANGED <<regVars, anaVars, cfgVars>>

\* The analyze action (main.py lines 65-69): the result is printed and main
\* falls through to return 0.
Analyze ==
    /\ pc = "analyze"
    /\ IF ~Given(argv.backup)
       THEN /\ End(SysExit(2)) /\ printed' = <<"usage error">>
            /\ UNCHANGED <<anaVars, fsVars, engVars>>
       ELSE /\ \E in \in AnalysisInputs : AnalyzeCall(in[1], in[2])
            /\ End(Returned(0))
            /\ printed' = <<"status: " \o analysis'.status>>
    /\ UNCHANGED <<argv, configOk, logFile, intel, errorContent, obtained,
                   queries, plan, engineRuns>>
    /\ UNCHANGED <<regVars, cfgVars>>

Finish(r) ==
    /\ End(r.end)
    /\ errorContent' = r.errorContent /\ obtained' = r.obtained
    /\ queries' = r.queries /\ plan' = r.plan /\ printed' = r.printed
    /\ engineRuns' = r.engineRuns
    /\ UNCHANGED <<argv, configOk, logFile, intel>>
    /\ UNCHANGED <<regVars, fsVars, engVars, anaVars, cfgVars>>

Repair ==
    /\ pc = "repair"
    /\ Finish(RepairRun(argv, logFile))

IntelligentRestore ==
    /\ pc = "intelligent-restore"
    /\ Finish(IntelligentRestoreRun(argv, logFile, intel))

\* The test action (main.py lines 161-163), then return 0.
Test ==
    /\ pc = "test"
    /\ End(Returned(0))
    /\ printed' = <<"info: Starting tests...", "info: Tests passed!">>
    /\ UNCHANGED <<argv, configOk, logFile, intel, errorContent, obtained,
                   queries, plan, engineRuns>>
    /\ UNCHANGED <<regVars, fsVars, engVars, anaVars, cfgVars>>

-----------------------------------------------------------------------------
(* State machine: the configuration accessor in one process. *)

ConfigIdle ==
    /\ configFile = "settings_v1" /\ configCache = NoConfig
    /\ configObjects = 0 /\ loaderCalls = 0 /\ validateCalls = 0
    /\ configCalls = 0 /\ configReturned = NoConfig
    /\ configRaised = NoException /\ served = NoConfig

\* config = get_config()
CallGetConfig ==
    /\ configCalls < MaxCalls
    /\ LET r == get_config(configCache, configFile, configObjects) IN
         /\ configCache' = r.cache /\ configObjects' = r.objects
         /\ loaderCalls' = loaderCalls + r.loads
         /\ validateCalls' = validateCalls + r.validations
         /\ configReturned' = r.returned /\ configRaised' = r.raised
         /\ served' = (IF r.raised = NoException THEN r.returned ELSE served)
    /\ configCalls' = configCalls + 1
    /\ UNCHANGED configFile
    /\ UNCHANGED <<regVars, fsVars, engVars, anaVars, mainVars>>

\* _reset_config_cache_for_testing()
ResetConfigCache ==
    /\ configCache' = NoConfig /\ served' = NoConfig
    /\ UNCHANGED <<configFile, configObjects, loaderCalls, validateCalls,
                   configCalls, configReturned, configRaised>>
    /\ UNCHANGED <<regVars, fsVars, engVars, anaVars, mainVars>>

\* Someone rewrites, removes or creates the configuration file.
RewriteConfigFile ==
    /\ configFile' \in ConfigFiles \ {configFile}
    /\ UNCHANGED <<configCache, configObjects, loaderCalls, validateCalls,
                   configCalls, configReturned, configRaised, served>>
    /\ UNCHANGED <<regVars, fsVars, engVars, anaVars, mainVars>>

-----------------------------------------------------------------------------
(* Specifications. *)

\* The registry on its own: rules are registered and logs dispatched.
InitRegistry == RegistryIdle /\ NoFileSystem /\ EngineIdle /\ AnalysisIdle /\ NoMain
                /\ ConfigIdle
NextRegistry == RegisterRule \/ Dispatch
SpecRegistry == InitRegistry /\ [][NextRegistry]_vars

\* A registry that was filled and is then only asked: logs are dispatched,
\* and calls repeated, with no registration in between.
RuleSeqs == UNION {[1..n -> RepairRules] : n \in 0..MaxRules}
InitDispatch ==
    /\ rules \in RuleSeqs
    /\ regArg = (IF rules = <<>> THEN None ELSE rules[Len(rules)])
    /\ regRaised = NoException /\ accepted = rules
    /\ lastRules = <<>> /\ lastLog = NoLog /\ lastTenant = None
    /\ suggestion = NoValue /\ calls = <<>> /\ earlier = NoValue
    /\ NoFileSystem /\ EngineIdle /\ AnalysisIdle /\ NoMain /\ ConfigIdle
NextDispatch == Dispatch \/ DispatchAgain
SpecDispatch == InitDispatch /\ [][NextDispatch]_vars

\* The engine on its own: run_restore is called on any file system.
InitEngine == RegistryIdle /\ FileSystems /\ EngineIdle /\ AnalysisIdle /\ NoMain
              /\ ConfigIdle
NextEngine == RunRestore
SpecEngine == InitEngine /\ [][NextEngine]_vars

\* analyze_backup on its own, on any backup directory and configuration.
InitAnalyze ==
    /\ RegistryIdle
    /\ srcKind \in Kinds
    /\ srcFiles \in (IF srcKind = "dir" THEN AnalysisDirs ELSE {EmptyDir})
    /\ tgtKind = "absent" /\ tgtFiles = EmptyDir /\ tgtInSource = FALSE
    /\ \E f \in AnalysisFormats : formatKeys = f[1] /\ patterns = f[2]
    /\ encryptKey = None
    /\ EngineIdle /\ AnalysisIdle /\ NoMain /\ ConfigIdle
NextAnalyze == AnalyzeBackup
SpecAnalyze == InitAnalyze /\ [][NextAnalyze]_vars

\* The configuration accessor on its own: get_config is called, the cache
\* reset and the file changed, in any order.
InitConfig == RegistryIdle /\ NoFileSystem /\ EngineIdle /\ AnalysisIdle /\ NoMain
              /\ configFile \in ConfigFiles /\ configCache = NoConfig
              /\ configObjects = 0 /\ loaderCalls = 0 /\ validateCalls = 0
              /\ configCalls = 0 /\ configReturned = NoConfig
              /\ configRaised = NoException /\ served = NoConfig
NextConfig == CallGetConfig \/ ResetConfigCache \/ RewriteConfigFile
SpecConfig == InitConfig /\ [][NextConfig]_vars

\* One run of the command line.
Init ==
    /\ RegistryIdle
    /\ srcKind \in {"absent", "dir"}
    /\ srcFiles = (IF srcKind = "dir"
                   THEN [n \in FileNames |-> SourceContent(n)] ELSE EmptyDir)
    /\ tgtKind \in {"absent", "dir"} /\ tgtFiles = EmptyDir /\ tgtInSource = FALSE
    /\ patterns = <<PatLog, PatSql>> /\ formatKeys = <<"logs", "db">>
    /\ encryptKey = None
    /\ EngineIdle /\ AnalysisIdle
    /\ pc = "get_config" /\ MainIdle
    /\ argv \in Argvs
    /\ configOk \in BOOLEAN
    /\ logFile \in LogFiles
    /\ intel \in [codebase : Versions, backup : Versions]
    /\ ConfigIdle
Next == GetConfig \/ ParseArgs \/ Restore \/ Analyze \/ Repair \/ IntelligentRestore
        \/ Test
Spec == Init /\ [][Next]_vars


-----------------------------------------------------------------------------
(* Properties of the registry, checked under SpecRegistry. *)

\* The rules of the last dispatch that match its log.
Applicable ==
    {i \in 1..Len(lastRules) : RuleMatches(lastRules[i], lastLog, lastTenant)}
FirstApplicable == CHOOSE i \in Applicable : \A j \in Applicable : i <= j

\* C1: dispatch is first-match in registration order: when some registered
\* rule matches the log, the script returned is the one the lowest-index
\* matching rule generates, and no rule registered after that one has
\* matches() or generate_script() invoked.
C1_FirstMatchWins ==
    (lastLog # NoLog /\ Applicable # {}) =>
        /\ suggestion = RuleGenerateScript(lastRules[FirstApplicable], lastLog, lastTenant)
        /\ \A c \in Range(calls) : c.idx <= FirstApplicable

\* A dispatch where two registered rules match and would give different
\* scripts, and the registry answered.
C1_Witness ==
    /\ lastLog # NoLog
    /\ \E i, j \in Applicable :
         /\ i < j
         /\ RuleGenerateScript(lastRules[i], lastLog, lastTenant)
              # RuleGenerateScript(lastRules[j], lastLog, lastTenant)
    /\ suggestion # NoSuggestion

\* The rule whose generate_script the last dispatch invoked (None when it
\* invoked none).
Answering ==
    IF calls # <<>> /\ calls[Len(calls)].op = "generate_script"
    THEN lastRules[calls[Len(calls)].idx] ELSE None

\* The path PATH_REGEX extracts from the log of the last dispatch.
Extracted == PathSearch(lastLog)

\* The positions of `line` in the script the last dispatch returned.
LinesOf(line) == {i \in 1..Len(suggestion) : suggestion[i] = line}

\* The paths the catalogue logs hold, and every chown command for one of
\* them and a tenant string.
CataloguePaths == {PathSearch(l) : l \in Logs} \ {NoMatch}
ChownCommands ==
    {"chown -R " \o t \o "_user:" \o t \o "_group " \o Render(p) :
        t \in Tenants \ {None}, p \in CataloguePaths}

\* C12: for every log containing "Permission denied" from which a path P is
\* extracted, the script PermissionErrorRule.generate_script returns contains
\* 'chmod -R 755 P'; with a tenant T it also contains
\* 'chown -R T_user:T_group P' before the chmod command, and with no tenant
\* (None or the empty string) it contains no chown command.
C12_PermissionScript ==
    (/\ Answering = PermissionErrorRule
     /\ PermissionDenied \in Range(lastLog) /\ Extracted # NoMatch) =>
        LET P     == Render(Extracted)
            chmod == LinesOf("chmod -R 755 " \o P)
        IN  /\ chmod # {}
            /\ Truthy(lastTenant) =>
                  \E i \in LinesOf("chown -R " \o lastTenant \o "_user:"
                                    \o lastTenant \o "_group " \o P) :
                      \A j \in chmod : i < j
            /\ ~Truthy(lastTenant) =>
                  \A i \in 1..Len(suggestion) : suggestion[i] \notin ChownCommands

\* PermissionErrorRule answered a log with a path for tenant "acme" with a
\* script of a comment, a chown and a chmod line.
C12_Witness ==
    /\ Answering = PermissionErrorRule /\ Extracted = PathAcme
    /\ lastTenant = "acme" /\ Len(suggestion) = 3
    /\ suggestion[2] = "chown -R acme_user:acme_group /srv/acme/file.zip"
    /\ suggestion[3] = "chmod -R 755 /srv/acme/file.zip"

\* The parent directory of a path as it is written: the path up to its last
\* separator, or the root when nothing else is left.
LastSeparator(p) ==
    CHOOSE i \in 0..Len(p) :
        /\ i > 0 => p[i] \in Slashes
        /\ \A j \in (i + 1)..Len(p) : p[j] \notin Slashes
ParentDirectory(p) ==
    IF LastSeparator(p) <= 1 THEN SubSeq(p, 1, LastSeparator(p))
    ELSE SubSeq(p, 1, LastSeparator(p) - 1)

\* C13: for every log containing "No such file or directory" from which a
\* path is extracted, the script MissingDirectoryRule.generate_script returns
\* holds a single 'mkdir -p' command, whose argument is the parent directory
\* of the extracted path, and no creation command for the extracted path
\* itself.
C13_MkdirParent ==
    (/\ Answering = MissingDirectoryRule
     /\ NoSuchFile \in Range(lastLog) /\ Extracted # NoMatch) =>
        LET mkdir == "mkdir -p " \o Render(ParentDirectory(Extracted)) IN
        /\ Cardinality(LinesOf(mkdir)) = 1
        /\ \A i \in 1..Len(suggestion) :
             suggestion[i] \in {mkdir, "# Erstelle fehlendes Verzeichnis"}
        /\ LinesOf("mkdir -p " \o Render(Extracted)) = {}

\* The commands a repair script can hold for the catalogue paths.
ExecutableCommands ==
    ChownCommands
    \cup {"chmod -R 755 " \o Render(p) : p \in CataloguePaths}
    \cup {"mkdir -p " \o Render(q) :
            q \in CataloguePaths \cup {PathParent(p) : p \in CataloguePaths}}

C15_SentinelText ==
    /\ (Answering = PermissionErrorRule /\ Extracted = NoMatch) =>
          "# Error: Konnte keinen gültigen Pfad aus der 'Permission denied'-Meldung extrahieren."
              \in Range(suggestion)
    /\ (Answering = MissingDirectoryRule /\ Extracted = NoMatch) =>
          "# Error: Konnte keinen gültigen Pfad aus der 'No such file or directory'-Meldung extrahieren."
              \in Range(suggestion)

\* C16: when no registered rule matches the log, the registry being empty
\* included, dispatch returns the no-suggestion value "No repair suggestion
\* found for the given error." as a normal result and invokes no rule's
\* generate_script.
C16_NoSuggestion ==
    (lastLog # NoLog /\ Applicable = {}) =>
        /\ suggestion = <<"No repair suggestion found for the given error.">>
        /\ \A i \in 1..Len(calls) : calls[i].op # "generate_script"

\* Two rules were registered, neither matches the dispatched log, and both
\* were asked.
C16_Witness ==
    /\ lastLog # NoLog /\ Len(lastRules) = 2 /\ Applicable = {}
    /\ calls = <<Call("matches", 1), Call("matches", 2)>>
    /\ suggestion = NoSuggestion

\* C17: register_rule called with an argument that is not a RepairRule
\* instance fails at registration time with a TypeError and leaves the rule
\* sequence unchanged, so no such object is ever in the sequence a dispatch
\* walks.
C17_InvalidRuleRejected ==
    /\ [](NotARule \notin Range(rules) \cup Range(lastRules))
    /\ [][regArg' = NotARule => (regRaised' = "TypeError" /\ rules' = rules)]_vars

\* Something that is no rule was offered to a registry holding a rule, and a
\* log was dispatched afterwards.
C17_Witness ==
    /\ regArg = NotARule /\ regRaised = "TypeError"
    /\ rules # <<>> /\ lastRules = rules /\ lastLog # NoLog

\* C27: after any sequence of register_rule calls the rule sequence is the
\* accepted rules in the order of their calls: a successful call appends
\* exactly one element at the end, and no step removes, replaces or reorders
\* a registered rule.
C27_AppendOnly ==
    /\ [](rules = accepted)
    /\ [][/\ Len(rules) <= Len(rules') /\ Len(rules') <= Len(rules) + 1
          /\ SubSeq(rules', 1, Len(rules)) = rules]_vars

\* Two different rules accepted, then a rejected registration, then a
\* dispatch.
C27_Witness ==
    /\ Len(rules) = 2 /\ rules[1] # rules[2] /\ rules = accepted
    /\ regArg = NotARule /\ lastRules = rules /\ lastLog # NoLog

\* The positions in `calls` of the generate_script invocations.
Generated == {i \in 1..Len(calls) : calls[i].op = "generate_script"}

\* C28: during a dispatch a rule's generate_script is invoked only
\* immediately after the matches of that same rule returned true for the
\* dispatched log and tenant, and at most one generate_script call is made.
C28_GenerateAfterMatch ==
    /\ Cardinality(Generated) <= 1
    /\ \A i \in Generated :
         /\ i > 1 /\ calls[i - 1] = Call("matches", calls[i].idx)
         /\ RuleMatches(lastRules[calls[i].idx], lastLog, lastTenant)

\* The first rule was asked and did not match, the second was asked,
\* matched and generated the script; a third rule was never asked.
C28_Witness ==
    /\ Len(lastRules) = 3
    /\ calls = <<Call("matches", 1), Call("matches", 2), Call("generate_script", 2)>>
    /\ RuleMatches(lastRules[3], lastLog, lastTenant)

\* C29: for both built-in rules matches(log, tenant) depends on the log
\* only: for the dispatched log and any two tenant values, None included,
\* the results are equal; so the rule that wins dispatch in the default
\* registry, and the rules asked before it, do not depend on the tenant.
C29_MatchesIgnoresTenant ==
    lastLog # NoLog =>
        LET absent == generate_script_suggestion(MainRules, lastLog, None).calls IN
        \A t \in Tenants :      \* equal to the result for None, so to each other
            /\ \A rule \in {PermissionErrorRule, MissingDirectoryRule} :
                 RuleMatches(rule, lastLog, t) = RuleMatches(rule, lastLog, None)
            /\ generate_script_suggestion(MainRules, lastLog, t).calls = absent

\* The default registry was asked, for tenant "acme", about a log holding
\* both failure phrases, and the permission rule answered.
C29_Witness ==
    /\ lastRules = MainRules /\ lastTenant = "acme"
    /\ PermissionDenied \in Range(lastLog) /\ NoSuchFile \in Range(lastLog)
    /\ Answering = PermissionErrorRule

\* s[i..j] is path-shaped and runs to the first whitespace or quote: it
\* begins with "/" or with a drive letter, ":" and a slash or backslash, at
\* least one more symbol follows, none of them whitespace or a quote, and
\* the text ends or goes on with whitespace or a quote after j.
PathShaped(s, i, j) ==
    LET body == IF s[i] = "/" THEN i + 1 ELSE i + 3 IN
    /\ \/ s[i] = "/"
       \/ (i + 2 <= Len(s) /\ s[i] \in Letters /\ s[i + 1] = ":"
           /\ s[i + 2] \in {"/", "\\"})
    /\ body <= j /\ j <= Len(s)
    /\ \A k \in body..j : s[k] \notin {"'", "\"", " ", "\n"}
    /\ j = Len(s) \/ s[j + 1] \in {"'", "\"", " ", "\n"}

PathStarts(s) == {i \in 1..Len(s) : \E j \in i..Len(s) : PathShaped(s, i, j)}

\* The leftmost path-shaped substring of s, or NoMatch when there is none.
LeftmostPath(s) ==
    IF PathStarts(s) = {} THEN NoMatch
    ELSE LET i == CHOOSE a \in PathStarts(s) : \A b \in PathStarts(s) : a <= b
             j == CHOOSE b \in i..Len(s) : PathShaped(s, i, b)
         IN  SubSeq(s, i, j)

\* C30: the path both rules use is the leftmost path-shaped substring of
\* the whole log (POSIX absolute, or a drive letter followed by a slash or
\* backslash), without surrounding quotes and ending at the first whitespace
\* or quote, wherever it stands relative to the failure phrase; when the log
\* has no such substring the rule reports that no path could be extracted.
C30_LeftmostPath ==
    LET path == LeftmostPath(lastLog) IN
    /\ Answering = PermissionErrorRule =>
          IF path = NoMatch THEN suggestion = PermissionSentinel
          ELSE "chmod -R 755 " \o Render(path) \in Range(suggestion)
    /\ Answering = MissingDirectoryRule =>
          IF path = NoMatch THEN suggestion = MissingDirSentinel
          ELSE "mkdir -p " \o Render(PathParent(path)) \in Range(suggestion)

\* The missing-directory rule answered a log whose first path, a drive
\* path, stands before the failure phrase and whose second path, a POSIX
\* path, stands after it.
C30_Witness ==
    /\ Answering = MissingDirectoryRule
    /\ LeftmostPath(lastLog) = PathDrive
    /\ \E i \in 1..Len(lastLog) : lastLog[i] = "opt"
    /\ suggestion = <<"# Erstelle fehlendes Verzeichnis", "mkdir -p .">>

-----------------------------------------------------------------------------
(* Properties of repeated dispatch, checked under SpecDispatch. *)

-----------------------------------------------------------------------------
(* Properties of main(), checked under Spec. *)

\* A run of `action` that has ended after reading the error log.
EndedAfterReading(action) ==
    pc = "done" /\ argv.action = action /\ errorContent # NoLog

\* C2: in the intelligent-restore action, for every readable error log, the
\* run goes on from the diagnosis step to intelligence gathering; the
\* diagnosis step never ends or aborts the run.
C2_DiagnosisProceeds ==
    EndedAfterReading("intelligent-restore") =>
        /\ Step2Banner \in Range(printed)
        /\ Len(queries) >= 3

\* C3: the value the repair and intelligent-restore actions obtain from the
\* registry is what generate_script_suggestion returns for the rules main
\* registered, the log it read and the tenant it was given.
C3_DiagnosisIsDispatch ==
    (EndedAfterReading("repair") \/ EndedAfterReading("intelligent-restore")) =>
        obtained = generate_script_suggestion(MainRules, errorContent,
                                              argv.tenant).script

\* C5: when the backup version equals the codebase version, an
\* intelligent-restore run with a readable log selects the DirectRestore
\* plan, never issues the migration-plan query and ends with exit code 0.
C5_DirectRestoreSucceeds ==
    (EndedAfterReading("intelligent-restore") /\ intel.backup = intel.codebase) =>
        /\ plan = "DirectRestore"
        /\ \A i \in 1..Len(queries) : queries[i].query # "get_migration_plan"
        /\ exitCode = 0

\* C6: in the DirectRestore branch (backup version equals codebase version)
\* the run hands execution to RestorationEngine.run_restore() with the
\* last-stable backup path as the backup source before it finishes.
C6_DirectRestoreDelegates ==
    (EndedAfterReading("intelligent-restore") /\ intel.backup = intel.codebase) =>
        engineRuns = <<StableBackupPath>>

\* Nothing an action does has happened: no log read, no registry answer, no
\* intelligence query, no plan, no engine run, the file system as it was.
NoActionPerformed ==
    /\ errorContent = NoLog /\ obtained = NoValue /\ queries = <<>>
    /\ plan = "none" /\ engineRuns = <<>>
    /\ nRuns = 0 /\ tgtKind = pre.tgtKind /\ tgtFiles = pre.tgtFiles
    /\ analysis = NoAnalysis

\* C18: if loading the configuration raises a ConfigServiceError, main logs
\* the configuration error and returns 1 without performing any action,
\* whatever the command line is: the arguments are never parsed.
C18_ConfigErrorEndsRun ==
    ~configOk =>
        /\ pc \in {"get_config", "done"}
        /\ NoActionPerformed
        /\ pc = "done" =>
              /\ outcome = "returned" /\ exitCode = 1
              /\ printed = <<"critical: Configuration error">>

\* A restore command line with a backup directory to restore from, ended by
\* the configuration error.
C18_Witness ==
    /\ ~configOk /\ pc = "done" /\ exitCode = 1
    /\ argv.action = "restore" /\ argv.backup = BackupArg /\ srcKind = "dir"

\* The messages main logs for the operator when it cannot read the error log.
LogReadErrors == {"error: Error log file not found", "error: Error reading log file"}

\* C20: in the repair and the intelligent-restore action, if the error log
\* file is absent or unreadable the run ends with an error message for the
\* operator and exit code 1, with no uncaught exception and without running
\* the diagnosis or any later step.
C20_UnreadableLogHandled ==
    (/\ pc = "done" /\ configOk
     /\ argv.action \in {"repair", "intelligent-restore"}
     /\ Given(argv.error_log)
     /\ logFile.state \in {"absent", "unreadable"}) =>
        /\ outcome = "returned" /\ exitCode = 1
        /\ \E i \in 1..Len(printed) : printed[i] \in LogReadErrors
        /\ obtained = NoValue /\ queries = <<>> /\ plan = "none"
        /\ engineRuns = <<>>

\* C21: the restore action with --backup given constructs one
\* RestorationEngine on that backup path, invokes run_restore exactly once
\* and main returns 0, whether run_restore returned True or False.
C21_RestoreReturnsZero ==
    (/\ pc = "done" /\ configOk
     /\ argv.action = "restore" /\ Given(argv.backup)) =>
        /\ engineRuns = <<argv.backup>> /\ nRuns = 1
        /\ ret \in {"True", "False"}
        /\ outcome = "returned" /\ exitCode = 0

\* A restore whose second copy failed: run_restore returned False and main
\* returned 0.
C21_Witness ==
    /\ pc = "done" /\ argv.action = "restore" /\ engineRuns = <<BackupArg>>
    /\ faultAt = 2 /\ ret = "False" /\ exitCode = 0

\* The three intelligence queries, in the order of main.py lines 129-131.
ThreeFacts ==
    <<Q("get_last_stable_backup_path", None),
      Q("get_codebase_version", None),
      Q("get_backup_version", StableBackupPath)>>

\* C22: an intelligent-restore run gathers intelligence with exactly three
\* queries, each once and in this order: the last stable backup path, the
\* codebase version, the backup version of the path the first query
\* returned; planning (the comparison and any migration-plan query) comes
\* only after the three.
C22_ThreeQueriesInOrder ==
    EndedAfterReading("intelligent-restore") =>
        /\ Len(queries) >= 3 /\ SubSeq(queries, 1, 3) = ThreeFacts
        /\ \A i \in 4..Len(queries) : queries[i].query = "get_migration_plan"

\* The run printed its closing banner last and returned 0.
Finished ==
    /\ printed # <<>> /\ printed[Len(printed)] = FinishBanner
    /\ outcome = "returned" /\ exitCode = 0

\* The run stopped in planning for want of a migration path: the three
\* facts were gathered, the versions differ, the critical message came last.
Failed ==
    /\ printed # <<>> /\ printed[Len(printed)] = CriticalMsg
    /\ outcome = "SystemExit" /\ exitCode = 1
    /\ Len(queries) = 4 /\ SubSeq(queries, 1, 3) = ThreeFacts
    /\ intel.backup # intel.codebase

\* C24: in the migration branch (the versions differ and the migration plan
\* for them is not empty) execution is simulated only: no RestorationEngine
\* is constructed or run, nothing in the file system changes, and the run
\* ends in Finished with exit code 0.
C24_MigrationSimulated ==
    (/\ EndedAfterReading("intelligent-restore")
     /\ intel.backup # intel.codebase
     /\ get_migration_plan(intel.backup, intel.codebase) # <<>>) =>
        /\ engineRuns = <<>> /\ nRuns = 0
        /\ tgtKind = pre.tgtKind /\ tgtFiles = pre.tgtFiles
        /\ srcKind = pre.srcKind /\ srcFiles = pre.srcFiles
        /\ plan = "MigratedRestore" /\ Finished

\* C25: every intelligent-restore run with a readable error log ends in
\* exactly one of two outcomes, Finished (summary printed, exit code 0) or
\* Failed (no migration path, exit code 1, entered from planning after the
\* three facts were gathered and the versions compared unequal), and nothing
\* runs after it.
C25_FinishedOrFailed ==
    EndedAfterReading("intelligent-restore") => (Finished \/ Failed)

-----------------------------------------------------------------------------
(* Properties of the configuration accessor, checked under SpecConfig. *)

\* C19: the configuration is loaded at most once: after a get_config call
\* succeeded, every later get_config call returns the very same object and
\* invokes neither the loader nor the validation, until the cache is reset.
C19_LoadedOnce ==
    [][(served # NoConfig /\ configCalls' # configCalls) =>
          /\ configRaised' = NoException /\ configReturned' = served
          /\ loaderCalls' = loaderCalls /\ validateCalls' = validateCalls]_vars

\* Two calls after one load, the second made after the file was removed.
C19_Witness ==
    /\ configCalls = 2 /\ loaderCalls = 1 /\ validateCalls = 1
    /\ configFile = "absent" /\ configRaised = NoException
    /\ configReturned = served /\ served.settings = "settings_v1"

\* The cache is empty or holds a configuration that passed validation.
CacheValid == configCache = NoConfig \/ configCache.settings \in ValidSettings

\* C36: if loading or validating the configuration fails, get_config raises
\* ConfigFileError or ConfigValidationError and leaves the cache empty, so
\* the next call attempts a fresh load; in every reachable state the cache
\* is either empty or holds a configuration that passed validation.
C36_FailureLeavesCacheEmpty ==
    /\ [](/\ CacheValid
          /\ configRaised # NoException =>
               /\ configRaised \in {"ConfigFileError", "ConfigValidationError"}
               /\ configCache = NoConfig)
    /\ [][(configRaised # NoException /\ configCalls' # configCalls) =>
             loaderCalls' = loaderCalls + 1]_vars

-----------------------------------------------------------------------------
(* Properties of the restoration engine, checked under SpecEngine.  `pre`   *)
(* is the file system the last run_restore call found.                      *)

\* The files of `files` whose names match at least one of the patterns.
Matched(files, pats) ==
    {n \in DOMAIN files : \E i \in 1..Len(pats) : GlobMatch(pats[i], n)}

SourceUntouched == srcKind = pre.srcKind /\ srcFiles = pre.srcFiles
TargetUntouched == tgtKind = pre.tgtKind /\ tgtFiles = pre.tgtFiles

\* C7: if the backup source is not an existing directory, every call of
\* run_restore returns False and has no side effect: the target directory is
\* not created and no file is created, overwritten or removed.
C7_MissingSourceFails ==
    (nRuns > 0 /\ pre.srcKind # "dir") =>
        ret = "False" /\ TargetUntouched /\ SourceUntouched

\* A second call on a missing source with a target that does not exist.
C7_Witness ==
    /\ nRuns >= 2 /\ pre.srcKind = "absent" /\ pre.tgtKind = "absent"
    /\ patterns # <<>> /\ ret = "False"

\* C8: when the source is a directory, the target is absent or an empty
\* directory and every copy succeeds, run_restore returns True and the target
\* then holds exactly the source files whose names match at least one
\* configured pattern, each with the content of its source.
C8_RestoreComplete ==
    (/\ nRuns > 0 /\ pre.srcKind = "dir"
     /\ pre.tgtKind # "file" /\ pre.tgtFiles = EmptyDir
     /\ faultAt = 0) =>
        /\ ret = "True"
        /\ DOMAIN tgtFiles = Matched(pre.srcFiles, patterns)
        /\ \A n \in DOMAIN tgtFiles : tgtFiles[n] = pre.srcFiles[n]

\* A restore into an absent target that copied some source files and left
\* another, matching no pattern, behind.
C8_Witness ==
    /\ nRuns > 0 /\ pre.srcKind = "dir" /\ pre.tgtKind = "absent" /\ faultAt = 0
    /\ ret = "True" /\ tgtKind = "dir"
    /\ Cardinality(DOMAIN tgtFiles) = 2
    /\ DOMAIN pre.srcFiles = FileNames

\* The names of entries 1..k of the last files_to_restore.
Upto(k) == {filesToRestore[j] : j \in 1..k}

\* C9: if the copy of the k-th entry of the matched file list raises an I/O
\* error, run_restore returns False, no entry after the k-th is copied, and
\* the files copied before the failure remain in the target.
C9_CopyFailureAborts ==
    (nRuns > 0 /\ faultAt > 0) =>
        /\ ret = "False"
        /\ copied = SubSeq(filesToRestore, 1, faultAt - 1)
        /\ \A n \in Upto(faultAt - 1) :
             /\ n \in DOMAIN tgtFiles
             /\ n # filesToRestore[faultAt] => tgtFiles[n] = pre.srcFiles[n]
        /\ \A n \in FileNames \ Upto(faultAt) :
             /\ n \in DOMAIN tgtFiles <=> n \in DOMAIN pre.tgtFiles
             /\ n \in DOMAIN tgtFiles => tgtFiles[n] = pre.tgtFiles[n]

\* The second of three copies failed: one file was copied before it, one
\* entry was still to come.
C9_Witness ==
    /\ nRuns > 0 /\ faultAt = 2 /\ Len(filesToRestore) = 3
    /\ ret = "False" /\ Len(copied) = 1
    /\ filesToRestore[3] \notin DOMAIN tgtFiles

\* C10: if the source is a directory, the target is valid and no source file
\* matches any configured pattern, run_restore returns True and changes
\* nothing: no file is copied and an absent target directory is not created.
C10_NothingToRestore ==
    (/\ nRuns > 0 /\ pre.srcKind = "dir" /\ pre.tgtKind # "file"
     /\ Matched(SourceEntries(pre.srcFiles, tgtInSource, pre.tgtKind),
                patterns) = {}) =>
        ret = "True" /\ copied = <<>> /\ TargetUntouched /\ SourceUntouched

\* A source with files, patterns that match none of them, no target yet.
C10_Witness ==
    /\ nRuns > 0 /\ pre.srcKind = "dir" /\ pre.srcFiles # EmptyDir
    /\ patterns # <<>> /\ Matched(pre.srcFiles, patterns) = {}
    /\ pre.tgtKind = "absent" /\ tgtKind = "absent" /\ ret = "True"

\* C11: if the target path exists and is not a directory, run_restore returns
\* False without copying any file and without altering the existing target
\* entry, even when source files match the patterns.
C11_TargetIsFileFails ==
    (nRuns > 0 /\ pre.srcKind = "dir" /\ pre.tgtKind = "file") =>
        ret = "False" /\ copied = <<>> /\ TargetUntouched /\ SourceUntouched

\* A call on a source with matching files whose target path is a file.
C11_Witness ==
    /\ nRuns > 0 /\ pre.srcKind = "dir" /\ pre.tgtKind = "file"
    /\ Matched(pre.srcFiles, patterns) # {}
    /\ ret = "False" /\ tgtKind = "file"

\* How often name n stands in a list, and how many of the configured
\* patterns match it.
Occurrences(list, n) == Cardinality({i \in 1..Len(list) : list[i] = n})
MatchingPatterns(n) ==
    Cardinality({i \in 1..Len(patterns) : GlobMatch(patterns[i], n)})

FailedName == IF faultAt > 0 THEN {filesToRestore[faultAt]} ELSE {}

\* The target entries named in S hold their source's content, and those the
\* target had before the call and T does not name are as they were.
Overwritten(S) ==
    \A n \in S : n \in DOMAIN tgtFiles /\ tgtFiles[n] = pre.srcFiles[n]
KeptExcept(T) ==
    \A n \in DOMAIN pre.tgtFiles \ T :
        n \in DOMAIN tgtFiles /\ tgtFiles[n] = pre.tgtFiles[n]

\* C32 as stated: a successful copy overwrites a same-named file already in
\* the target with the source's content, and every entry of the target
\* directory whose name equals no copied file's name is left unchanged by
\* run_restore.
C32_TargetFrame ==
    nRuns > 0 =>
        /\ Overwritten(Range(copied) \ FailedName)
        /\ KeptExcept(Range(copied))

\* C32 as amended: a successful copy overwrites a same-named file already in
\* the target with the source's content, and every entry of the target
\* directory whose name equals neither a copied file's name nor the name of
\* the file whose copy raised is left unchanged; run_restore adds no entry
\* under another name.
C32_TargetFrameAmended ==
    nRuns > 0 =>
        /\ Overwritten(Range(copied) \ FailedName)
        /\ KeptExcept(Range(copied) \cup FailedName)
        /\ DOMAIN tgtFiles \subseteq
             DOMAIN pre.tgtFiles \cup Range(copied) \cup FailedName

\* Of three stale target files one was overwritten by a copy, one was left
\* partly written by the copy that raised, and the third, which no pattern
\* matches, is as it was.
C32_Witness ==
    /\ nRuns > 0 /\ faultAt = 2 /\ DOMAIN pre.tgtFiles = FileNames
    /\ copied = <<Name("b", "log")>>
    /\ tgtFiles[Name("b", "log")] = SourceContent(Name("b", "log"))
    /\ pre.tgtFiles[Name("b", "log")] = StaleContent
    /\ filesToRestore[2] = Name("a", "sql")
    /\ tgtFiles[Name("a", "sql")] = PartialContent
    /\ tgtFiles[Name("c", "txt")] = StaleContent

\* The values encrypt_key is compared over: unset, empty and set.
Keys == {None, "", "test-secret-key"}

DecryptionNotice == "info: Simulating decryption"
WithoutNotice(msgs) == SelectSeq(msgs, LAMBDA m : m # DecryptionNotice)

\* C33: the encryption key does not influence restoration: on the file
\* system the last call found, with the same glob results and the same copy
\* failure, run_restore with any key returns what the call returned and
\* leaves the target as the call left it; the key only adds a log notice.
C33_KeyHasNoInfluence ==
    nRuns > 0 =>
        \E mode \in {"untouched", "partial"} :
            \A key \in Keys :
                LET r == run_restore(pre.srcKind, pre.srcFiles, pre.tgtKind,
                                     pre.tgtFiles, key, filesToRestore,
                                     faultAt, mode)
                IN  /\ r.ret = (ret = "True")
                    /\ r.tgtKind = tgtKind /\ r.tgtFiles = tgtFiles
                    /\ r.copied = copied
                    /\ WithoutNotice(r.logged) = WithoutNotice(logged)
                    /\ DecryptionNotice \in Range(r.logged) =>
                         key = "test-secret-key"

\* A call with a key set logged the notice and restored two files over a
\* stale one.
C33_Witness ==
    /\ nRuns > 0 /\ encryptKey = "test-secret-key" /\ ret = "True"
    /\ DecryptionNotice \in Range(logged)
    /\ Len(copied) = 2 /\ pre.tgtFiles # EmptyDir
    /\ \A n \in Range(copied) : tgtFiles[n] = pre.srcFiles[n]

\* The entries of the backup directory are what they were when the last
\* call began: none was created, modified or deleted.
SourceEntriesKept ==
    /\ srcKind = pre.srcKind
    /\ SourceEntries(srcFiles, tgtInSource, tgtKind)
         = SourceEntries(pre.srcFiles, tgtInSource, pre.tgtKind)

\* C34 as stated: run_restore never creates, modifies or deletes any entry
\* of the backup source directory, on any outcome, provided the target
\* directory is not the source directory (in no state of the model is it).
C34_SourceFrame == nRuns > 0 => SourceEntriesKept

\* C34 as amended: run_restore never creates, modifies or deletes any entry
\* of the backup source directory, on any outcome, provided the target
\* directory is neither the source directory nor located inside it.
C34_SourceFrameAmended == (nRuns > 0 /\ ~tgtInSource) => SourceEntriesKept

\* A call whose target lies outside the backup directory copied one file,
\* failed on the next leaving it partly written, and the backup directory
\* holds its three files as before.
C34_Witness ==
    /\ nRuns > 0 /\ ~tgtInSource /\ ret = "False" /\ faultAt = 2
    /\ Len(copied) = 1 /\ filesToRestore[2] \in DOMAIN tgtFiles
    /\ tgtFiles[filesToRestore[2]] = PartialContent
    /\ DOMAIN srcFiles = FileNames /\ srcFiles = pre.srcFiles

-----------------------------------------------------------------------------
(* Properties of analyze_backup, checked under SpecAnalyze. *)

\* The case a result reports: which error, or the status.
AnalysisCase ==
    IF analysis.status = "error" THEN analysis.details.error ELSE analysis.status

\* The entries of the backup directory the db pattern and the logs pattern
\* match (the patterns "*.sql" and "*.log" when the key is not configured).
DbMatches ==
    {n \in DOMAIN srcFiles :
        GlobMatch(FormatGet(formatKeys, patterns, "db", PatSql), n)}
LogMatches ==
    {n \in DOMAIN srcFiles :
        GlobMatch(FormatGet(formatKeys, patterns, "logs", PatLog), n)}

\* C37: analyze_backup decides its status by the first applicable case in
\* this order: error if the path is not a directory; error if no file
\* matches the db pattern; error if the first db-matched file is empty; warn
\* if no file matches the logs pattern; ok otherwise.  Hence an empty first
\* SQL file yields error even when log files are missing too, and ok is
\* returned only when a non-empty first SQL file and at least one log file
\* exist.
C37_CaseOrder ==
    analysis # NoAnalysis =>
        /\ AnalysisCase =
             (IF srcKind # "dir" THEN "Backup directory not found"
              ELSE IF DbMatches = {} THEN "No SQL files found"
              ELSE IF srcFiles[sqlFiles[1]] = <<>> THEN "SQL file is empty"
              ELSE IF LogMatches = {} THEN "warn"
              ELSE "ok")
        /\ (srcKind = "dir" /\ DbMatches # {}) => sqlFiles[1] \in DbMatches
        /\ (/\ srcKind = "dir" /\ DbMatches # {}
            /\ srcFiles[sqlFiles[1]] = <<>> /\ LogMatches = {}) =>
               analysis.status = "error"
        /\ analysis.status = "ok" =>
               /\ srcKind = "dir" /\ sqlFiles # <<>>
               /\ srcFiles[sqlFiles[1]] # <<>> /\ LogMatches # {}

\* The first of two db-matched files is empty, the other is not, and no
\* file matches the logs pattern: the result is the error about the empty
\* SQL file, not the warning.
C37_Witness ==
    /\ analysis.status = "error" /\ analysis.details.error = "SQL file is empty"
    /\ Len(sqlFiles) = 2 /\ srcFiles[sqlFiles[2]] # <<>>
    /\ logFiles = <<>> /\ LogMatches = {}

=============================================================================
